---- MODULE Spec2Model ----
(***************************************************************************)
(* The session coordination engine of minignetserver: the registry         *)
(* (WorldState.sessions), the GameSession turn/state machine and the       *)
(* per-gamer mailboxes, as driven by the process_* request handlers.       *)
(* Each handler runs its lookup and mutation under the registry mutex, so  *)
(* one action is one handler's critical section and the response it hands  *)
(* to reply_client.                                                        *)
(***************************************************************************)
EXTENDS Integers, Sequences, FiniteSets, TLC

\* ---------------------------------------------------------------- bounds
\* Spec: messages saved, next_gamer calls counted per session since creation
\* or reset, total length of the update histories of a session.
MaxMsgs == 1
MaxCalls == 3
MaxUpdates == 1
\* SpecMail: the same three bounds.
MailMsgs == 2
MailCalls == 1
MailUpdates == 1
\* SpecReg: the same three bounds.
RegMsgs == 1
RegCalls == 1
RegUpdates == 1
\* SpecUpd: messages saved, next_gamer calls as above, updates accepted in all.
UpdMsgs == 2
UpdCalls == 1
UpdUpdates == 2
\* SpecTurn: next_gamer calls answered Ok per session since creation or reset.
TurnCalls == 3
\* SpecIso: messages saved, next_gamer calls per session since creation or
\* reset, total length of the update histories of the registry.
IsoMsgs == 1
IsoCalls == 1
IsoUpdates == 1

\* Identifiers requests may name (GamerIdType, SessionIdType are Strings).
Gamers == {"alice", "bob", "carol"}
SessionIds == {"s1"}
\* The session ids of SpecReg; the history variables are kept for each of them.
RegSessionIds == {"s1", "s2"}
UpdateBytes == {"u1"}
\* The connections of SpecConc, one handler task each.
Conns == {"c1", "c2", "c3"}

VARIABLES
    sessions,   \* WorldState.sessions : SessionIdType -> GameSession
    last,       \* the request handled last and the response given to reply_client
    msgno,      \* messages saved so far; the next payload is msgno + 1
    joinlog,    \* history: per session, the gamers in the order of their first join
    calls,      \* history: per session, next_gamer calls since creation/reset, -1 once a new gamer joined after a call
    saved,      \* history: per session and gamer, the messages addressed to the gamer, in save order
    fetched,    \* history: per session and gamer, the messages returned by fetches, in order
    before,     \* history (SpecUpd): the registry before the request handled last, and the session just reset then
    updno,      \* history (SpecUpd): updates accepted so far; the next update is updno + 1
    lastupd,    \* history (SpecUpd): per session and gamer, the update accepted last since creation/reset, 0 for none
    hs,         \* SpecConc: per connection, the handler task MGNServer::process spawned for it
    mutex,      \* SpecConc: the tokio Mutex around WorldState: its holder and its FIFO queue of waiters
    lin,        \* history (SpecConc): the requests served one at a time in the order the lock was acquired
    turns       \* history (SpecTurn): per session, every next_gamer call answered Ok since creation/reset

vars == <<sessions, last, msgno, joinlog, calls, saved, fetched, before, updno, lastupd,
          hs, mutex, lin, turns>>

\* ------------------------------------------------------------- data types
EmptyMap == [x \in {} |-> x]

MapPut(m, k, v) == [x \in (DOMAIN m) \cup {k} |-> IF x = k THEN v ELSE m[x]]

\* MessageAddress::All / MessageAddress::One(id)
AddrAll == [kind |-> "All"]

AddrOne(id) == [kind |-> "One", id |-> id]

\* Message { from, to, payload }
Message(from, to, payload) == [from |-> from, to |-> to, payload |-> payload]

\* Response variants; NoReply: the handler task panicked before reply_client.
RespOk == [tag |-> "Ok"]

RespError == [tag |-> "Error"]

RespOkWithBool(b) == [tag |-> "OkWithBool", b |-> b]

RespOkWithMessages(ms) == [tag |-> "OkWithMessages", messages |-> ms]

RespOkWithPreviousRoundUpdates(m) == [tag |-> "OkWithPreviousRoundUpdates", map |-> m]

NoReply == [tag |-> "NoReply"]

\* UserState::default()
UserState_default == [updates |-> <<>>, awaiting_messages |-> <<>>]

\* UserState::add_update
UserState_add_update(us, update) == [us EXCEPT !.updates = Append(@, update)]

\* Variant: reset leaves the update history as it is.
UserState_reset_nothing(us) == us

\* Variant: reset replaces the user state by the default one, mailbox included.
UserState_reset_all(us) == UserState_default

\* UserState::reset
UserState_reset(us) == [us EXCEPT !.updates = <<>>]

\* ------------------------------------------------------------ GameSession
\* Variant: a new session starts in Game.
GameSession_new_started ==
    [user_states |-> EmptyMap, sequence |-> <<>>,
     current_gamer_index |-> 0, state |-> "Game"]

GameSession_new ==
    [user_states |-> EmptyMap, sequence |-> <<>>,
     current_gamer_index |-> 0, state |-> "Join"]

\* Variant: a new gamer joining rewinds the turn index.
join_rewinds(sess, gamer_id) ==
    IF gamer_id \in DOMAIN sess.user_states
    THEN sess
    ELSE [sess EXCEPT
            !.user_states = MapPut(@, gamer_id, UserState_default),
            !.sequence = Append(@, gamer_id),
            !.current_gamer_index = 0]

\* Variant: the contains_key test inverted, so a new gamer is never added.
join_inverted(sess, gamer_id) ==
    IF gamer_id \notin DOMAIN sess.user_states
    THEN sess
    ELSE [sess EXCEPT
            !.user_states = MapPut(@, gamer_id, UserState_default),
            !.sequence = Append(@, gamer_id)]

\* Variant: no contains_key test, every join inserts and pushes.
join_unchecked(sess, gamer_id) ==
    [sess EXCEPT
        !.user_states = MapPut(@, gamer_id, UserState_default),
        !.sequence = Append(@, gamer_id)]

\* Variant: the gamer is inserted at the front of the sequence.
join_front(sess, gamer_id) ==
    IF gamer_id \in DOMAIN sess.user_states
    THEN sess
    ELSE [sess EXCEPT
            !.user_states = MapPut(@, gamer_id, UserState_default),
            !.sequence = <<gamer_id>> \o @]

\* Variant: a new gamer catches up on the broadcasts the first participant has
\* not fetched yet.
join_catch_up(sess, gamer_id) ==
    IF gamer_id \in DOMAIN sess.user_states
    THEN sess
    ELSE LET backlog == IF Len(sess.sequence) = 0 THEN <<>>
                        ELSE SelectSeq(sess.user_states[sess.sequence[1]].awaiting_messages,
                                       LAMBDA m : m.to.kind = "All")
         IN  [sess EXCEPT
                !.user_states = MapPut(@, gamer_id,
                                       [UserState_default EXCEPT !.awaiting_messages = backlog]),
                !.sequence = Append(@, gamer_id)]

join(sess, gamer_id) ==
    IF gamer_id \in DOMAIN sess.user_states
    THEN sess
    ELSE [sess EXCEPT
            !.user_states = MapPut(@, gamer_id, UserState_default),
            !.sequence = Append(@, gamer_id)]

\* Iterator::position: index (from 0) of the first element equal to gamer_id, -1 for None
position(seq, gamer_id) ==
    IF \E i \in 1..Len(seq) : seq[i] = gamer_id
    THEN (CHOOSE i \in 1..Len(seq) :
            /\ seq[i] = gamer_id
            /\ \A j \in 1..(i - 1) : seq[j] # gamer_id) - 1
    ELSE -1

\* Variant: the position is compared with <= instead of ==.
is_gamer_turn_up_to(sess, gamer_id) ==
    IF sess.state # "Game"
    THEN FALSE
    ELSE LET pos == position(sess.sequence, gamer_id)
         IN  IF pos = -1 THEN FALSE ELSE pos <= sess.current_gamer_index

\* Variant: the state test is missing.
is_gamer_turn_any_state(sess, gamer_id) ==
    LET pos == position(sess.sequence, gamer_id)
    IN  IF pos = -1 THEN FALSE ELSE pos = sess.current_gamer_index

is_gamer_turn(sess, gamer_id) ==
    IF sess.state # "Game"
    THEN FALSE
    ELSE LET pos == position(sess.sequence, gamer_id)
         IN  IF pos = -1 THEN FALSE ELSE pos = sess.current_gamer_index

is_game_on(sess) == sess.state = "Game"

\* Variant: reset replaces the session by a new one.
reset_new(sess) == GameSession_new

\* Variant: the state is not set back to Join.
reset_keeps_state(sess) ==
    [sess EXCEPT
        !.current_gamer_index = 0,
        !.user_states = [g \in DOMAIN @ |-> UserState_reset(@[g])]]

\* Variant: the turn index is not rewound.
reset_keeps_index(sess) ==
    [sess EXCEPT
        !.state = "Join",
        !.user_states = [g \in DOMAIN @ |-> UserState_reset(@[g])]]

reset(sess) ==
    [sess EXCEPT
        !.state = "Join",
        !.current_gamer_index = 0,
        !.user_states = [g \in DOMAIN @ |-> UserState_reset(@[g])]]

\* Variant: start without the test of the state.
start_unchecked(sess) == [sess EXCEPT !.state = "Game"]

start(sess) ==
    IF sess.state = "Join" THEN [sess EXCEPT !.state = "Game"] ELSE sess

\* Variant: end without the test of the state.
end_unchecked(sess) == [sess EXCEPT !.state = "Over"]

end(sess) ==
    IF sess.state = "Game" THEN [sess EXCEPT !.state = "Over"] ELSE sess

\* Variant: a gamer without a user state gets one, as with entry().or_default().
add_update_or_default(sess, gamer_id, update) ==
    [ok |-> TRUE,
     sess |-> [sess EXCEPT !.user_states =
                 MapPut(@, gamer_id,
                        UserState_add_update(IF gamer_id \in DOMAIN @ THEN @[gamer_id]
                                             ELSE UserState_default, update))]]

\* returns the bool and the session after the call
add_update(sess, gamer_id, update) ==
    IF gamer_id \in DOMAIN sess.user_states
    THEN [ok |-> TRUE,
          sess |-> [sess EXCEPT !.user_states[gamer_id] = UserState_add_update(@, update)]]
    ELSE [ok |-> FALSE, sess |-> sess]

\* Variant of the All branch: the sender is not skipped.
RECURSIVE save_to_all_with_sender(_, _, _, _)
save_to_all_with_sender(seq, i, us, message) ==
    IF i > Len(seq) THEN [panic |-> FALSE, us |-> us]
    ELSE IF seq[i] \notin DOMAIN us THEN [panic |-> TRUE, us |-> us]
    ELSE save_to_all_with_sender(seq, i + 1,
                     [us EXCEPT ![seq[i]].awaiting_messages = Append(@, message)],
                     message)

\* The All branch: the loop over self.sequence from position i on, us being
\* user_states so far. A missing user state is the expect() panic.
RECURSIVE save_to_all(_, _, _, _)
save_to_all(seq, i, us, message) ==
    IF i > Len(seq) THEN [panic |-> FALSE, us |-> us]
    ELSE IF seq[i] = message.from THEN save_to_all(seq, i + 1, us, message)
    ELSE IF seq[i] \notin DOMAIN us THEN [panic |-> TRUE, us |-> us]
    ELSE save_to_all(seq, i + 1,
                     [us EXCEPT ![seq[i]].awaiting_messages = Append(@, message)],
                     message)

\* Variant: the One branch puts the message at the front of the mailbox.
save_message_front(sess, message) ==
    IF message.to.kind = "All"
    THEN LET r == save_to_all(sess.sequence, 1, sess.user_states, message)
         IN  [panic |-> r.panic, sess |-> [sess EXCEPT !.user_states = r.us]]
    ELSE IF message.to.id \in DOMAIN sess.user_states
         THEN [panic |-> FALSE,
               sess |-> [sess EXCEPT
                           !.user_states[message.to.id].awaiting_messages =
                               <<message>> \o @]]
         ELSE [panic |-> TRUE, sess |-> sess]

\* returns whether the call panicked (expect on a missing user state) and the
\* session after the call
save_message(sess, message) ==
    IF message.to.kind = "All"
    THEN LET r == save_to_all(sess.sequence, 1, sess.user_states, message)
         IN  [panic |-> r.panic, sess |-> [sess EXCEPT !.user_states = r.us]]
    ELSE IF message.to.id \in DOMAIN sess.user_states
         THEN [panic |-> FALSE,
               sess |-> [sess EXCEPT
                           !.user_states[message.to.id].awaiting_messages =
                               Append(@, message)]]
         ELSE [panic |-> TRUE, sess |-> sess]

\* Variant: the mailbox is cloned, not swapped out.
pop_gamer_messages_clone(sess, gamer_id) ==
    IF gamer_id \in DOMAIN sess.user_states
    THEN [out |-> sess.user_states[gamer_id].awaiting_messages, sess |-> sess]
    ELSE [out |-> <<>>, sess |-> sess]

\* returns the messages and the session after the call
pop_gamer_messages(sess, gamer_id) ==
    IF gamer_id \in DOMAIN sess.user_states
    THEN [out |-> sess.user_states[gamer_id].awaiting_messages,
          sess |-> [sess EXCEPT !.user_states[gamer_id].awaiting_messages = <<>>]]
    ELSE [out |-> <<>>, sess |-> sess]

\* Variant: the index is advanced without the remainder.
next_gamer_no_wrap(sess) ==
    [panic |-> FALSE, sess |-> [sess EXCEPT !.current_gamer_index = @ + 1]]

\* Variant: the index moves only while the game is on.
next_gamer_gated(sess) ==
    IF Len(sess.sequence) = 0
    THEN [panic |-> TRUE, sess |-> sess]
    ELSE IF sess.state # "Game"
    THEN [panic |-> FALSE, sess |-> sess]
    ELSE [panic |-> FALSE,
          sess |-> [sess EXCEPT !.current_gamer_index = (@ + 1) % Len(sess.sequence)]]

\* returns whether the call panicked (remainder by zero) and the session after the call
next_gamer(sess) ==
    IF Len(sess.sequence) = 0
    THEN [panic |-> TRUE, sess |-> sess]
    ELSE [panic |-> FALSE,
          sess |-> [sess EXCEPT !.current_gamer_index = (@ + 1) % Len(sess.sequence)]]

\* ------------------------------------------------------ history bookkeeping
Range(seq) == {seq[i] : i \in 1..Len(seq)}

\* The gamers a message is addressed to among the gamers that joined so far.
Addressees(joined, message) ==
    IF message.to.kind = "All"
    THEN joined \ {message.from}
    ELSE joined \cap {message.to.id}

\* Sum of the lengths of the update histories of a session.
RECURSIVE SumUpdates(_, _)
SumUpdates(us, dom) ==
    IF dom = {} THEN 0
    ELSE LET g == CHOOSE x \in dom : TRUE
         IN  Len(us[g].updates) + SumUpdates(us, dom \ {g})

\* ---------------------------------------------------------------- Init
\* A handler task before its connection is accepted. pc is the position of
\* the task in MGNServer::process, req the request the client sends, resp the
\* response last written, writes the number of responses written, closed
\* whether writer.shutdown() was called, guard whether the task owns the
\* MutexGuard of the registry, waited whether it had to queue for the lock.
NewHandler ==
    [pc |-> "idle", req |-> [op |-> "none"], resp |-> NoReply, writes |-> 0,
     closed |-> FALSE, guard |-> FALSE, waited |-> FALSE]

\* Mutex::new: nobody holds the lock, nobody waits.
NewMutex == [holder |-> "none", queue |-> <<>>]

\* The history lin over a registry: nothing served yet.
NewLin(reg) == [sessions |-> reg, resp |-> [c \in Conns |-> NoReply], order |-> <<>>]

\* The value of before when no request has been handled yet.
NoRequest == [sessions |-> EmptyMap, reset |-> {}]

Init ==
    /\ sessions = EmptyMap
    /\ last = [op |-> "none", resp |-> NoReply]
    /\ msgno = 0
    /\ joinlog = [s \in RegSessionIds |-> <<>>]
    /\ calls = [s \in RegSessionIds |-> 0]
    /\ saved = [s \in RegSessionIds |-> [g \in Gamers |-> <<>>]]
    /\ fetched = [s \in RegSessionIds |-> [g \in Gamers |-> <<>>]]
    /\ before = NoRequest
    /\ updno = 0
    /\ lastupd = [s \in RegSessionIds |-> [g \in Gamers |-> 0]]
    /\ hs = [c \in Conns |-> NewHandler]
    /\ mutex = NewMutex
    /\ lin = NewLin(sessions)
    /\ turns = [s \in RegSessionIds |-> 0]

\* ------------------------------------------------------- request handlers
process_join_session(session_id, gamer_id) ==
    LET session == IF session_id \in DOMAIN sessions
                   THEN sessions[session_id] ELSE GameSession_new
        isNew == gamer_id \notin Range(joinlog[session_id])
    IN  /\ sessions' = MapPut(sessions, session_id, join(session, gamer_id))
        /\ last' = [op |-> "JoinSession", sid |-> session_id, gamer |-> gamer_id,
                    resp |-> RespOk]
        /\ joinlog' = IF isNew
                      THEN [joinlog EXCEPT ![session_id] = Append(@, gamer_id)]
                      ELSE joinlog
        /\ calls' = IF isNew /\ calls[session_id] > 0
                    THEN [calls EXCEPT ![session_id] = -1]
                    ELSE calls
        /\ UNCHANGED <<msgno, saved, fetched>>

process_reset_session(session_id) ==
    IF session_id \in DOMAIN sessions
    THEN /\ sessions' = [sessions EXCEPT ![session_id] = reset(@)]
         /\ last' = [op |-> "ResetSession", sid |-> session_id, resp |-> RespOk]
         /\ calls' = [calls EXCEPT ![session_id] = 0]
         /\ UNCHANGED <<msgno, joinlog, saved, fetched>>
    ELSE /\ last' = [op |-> "ResetSession", sid |-> session_id, resp |-> RespError]
         /\ UNCHANGED <<sessions, msgno, joinlog, calls, saved, fetched>>

\* Variant: the session is looked up with entry().or_insert(), as in join.
process_start_session_or_insert(session_id) ==
    LET session == IF session_id \in DOMAIN sessions
                   THEN sessions[session_id] ELSE GameSession_new
    IN  /\ sessions' = MapPut(sessions, session_id, start(session))
        /\ last' = [op |-> "StartSession", sid |-> session_id, resp |-> RespOk]
        /\ UNCHANGED <<msgno, joinlog, calls, saved, fetched>>

process_start_session(session_id) ==
    IF session_id \in DOMAIN sessions
    THEN /\ sessions' = [sessions EXCEPT ![session_id] = start(@)]
         /\ last' = [op |-> "StartSession", sid |-> session_id, resp |-> RespOk]
         /\ UNCHANGED <<msgno, joinlog, calls, saved, fetched>>
    ELSE /\ last' = [op |-> "StartSession", sid |-> session_id, resp |-> RespError]
         /\ UNCHANGED <<sessions, msgno, joinlog, calls, saved, fetched>>

process_end_session(session_id) ==
    IF session_id \in DOMAIN sessions
    THEN /\ sessions' = [sessions EXCEPT ![session_id] = end(@)]
         /\ last' = [op |-> "EndSession", sid |-> session_id, resp |-> RespOk]
         /\ UNCHANGED <<msgno, joinlog, calls, saved, fetched>>
    ELSE /\ last' = [op |-> "EndSession", sid |-> session_id, resp |-> RespError]
         /\ UNCHANGED <<sessions, msgno, joinlog, calls, saved, fetched>>

process_is_game_on(session_id) ==
    /\ last' = [op |-> "IsGameOn", sid |-> session_id,
                resp |-> IF session_id \in DOMAIN sessions
                         THEN RespOkWithBool(is_game_on(sessions[session_id]))
                         ELSE RespError]
    /\ UNCHANGED <<sessions, msgno, joinlog, calls, saved, fetched>>

process_is_gamer_turn(session_id, gamer_id) ==
    /\ last' = [op |-> "IsGamerTurn", sid |-> session_id, gamer |-> gamer_id,
                resp |-> IF session_id \in DOMAIN sessions
                         THEN RespOkWithBool(is_gamer_turn(sessions[session_id], gamer_id))
                         ELSE RespError]
    /\ UNCHANGED <<sessions, msgno, joinlog, calls, saved, fetched>>

process_send_update(session_id, gamer_id, update) ==
    IF session_id \in DOMAIN sessions
    THEN LET r == add_update(sessions[session_id], gamer_id, update)
         IN  /\ sessions' = [sessions EXCEPT ![session_id] = r.sess]
             /\ last' = [op |-> "SendUpdate", sid |-> session_id, gamer |-> gamer_id,
                         update |-> update,
                         resp |-> IF r.ok THEN RespOk ELSE RespError]
             /\ UNCHANGED <<msgno, joinlog, calls, saved, fetched>>
    ELSE /\ last' = [op |-> "SendUpdate", sid |-> session_id, gamer |-> gamer_id,
                     update |-> update, resp |-> RespError]
         /\ UNCHANGED <<sessions, msgno, joinlog, calls, saved, fetched>>

\* Variant: the map is built from updates.first().
previous_round_updates_first(sess) ==
    [g \in DOMAIN sess.user_states |->
        LET ups == sess.user_states[g].updates
        IN  IF Len(ups) = 0 THEN [some |-> FALSE]
            ELSE [some |-> TRUE, v |-> ups[1]]]

\* HashMap<GamerIdType, Option<Vec<u8>>> built from updates.last()
previous_round_updates(sess) ==
    [g \in DOMAIN sess.user_states |->
        LET ups == sess.user_states[g].updates
        IN  IF Len(ups) = 0 THEN [some |-> FALSE]
            ELSE [some |-> TRUE, v |-> ups[Len(ups)]]]

\* Variant: the handler takes the updates out of the histories it reports.
process_get_previous_round_updates_take(session_id) ==
    IF session_id \in DOMAIN sessions
    THEN /\ sessions' = [sessions EXCEPT ![session_id].user_states =
                            [g \in DOMAIN @ |-> UserState_reset(@[g])]]
         /\ last' = [op |-> "GetPreviousRoundUpdates", sid |-> session_id,
                     resp |-> RespOkWithPreviousRoundUpdates(
                                  previous_round_updates(sessions[session_id]))]
         /\ UNCHANGED <<msgno, joinlog, calls, saved, fetched>>
    ELSE /\ last' = [op |-> "GetPreviousRoundUpdates", sid |-> session_id,
                     resp |-> RespError]
         /\ UNCHANGED <<sessions, msgno, joinlog, calls, saved, fetched>>

process_get_previous_round_updates(session_id) ==
    /\ last' = [op |-> "GetPreviousRoundUpdates", sid |-> session_id,
                resp |-> IF session_id \in DOMAIN sessions
                         THEN RespOkWithPreviousRoundUpdates(
                                  previous_round_updates(sessions[session_id]))
                         ELSE RespError]
    /\ UNCHANGED <<sessions, msgno, joinlog, calls, saved, fetched>>

\* Variant: the message is saved in every session of the registry, not only in
\* the one the request names.
process_send_message_everywhere(session_id, from, to) ==
    LET message == Message(from, to, msgno + 1)
    IN  IF session_id \in DOMAIN sessions
        THEN LET r == save_message(sessions[session_id], message)
             IN  /\ sessions' = [t \in DOMAIN sessions |->
                                   save_message(sessions[t], message).sess]
                 /\ last' = [op |-> "SendMessage", sid |-> session_id,
                             message |-> message,
                             resp |-> IF r.panic THEN NoReply ELSE RespOk]
                 /\ msgno' = IF r.panic THEN msgno ELSE msgno + 1
                 /\ saved' = IF r.panic THEN saved
                             ELSE [saved EXCEPT ![session_id] =
                                     [g \in Gamers |->
                                        IF g \in Addressees(Range(joinlog[session_id]), message)
                                        THEN Append(@[g], message) ELSE @[g]]]
                 /\ UNCHANGED <<joinlog, calls, fetched>>
        ELSE /\ last' = [op |-> "SendMessage", sid |-> session_id,
                         message |-> message, resp |-> RespError]
             /\ UNCHANGED <<sessions, msgno, joinlog, calls, saved, fetched>>

\* The payload of the request is msgno + 1: payloads number the saved messages.
process_send_message(session_id, from, to) ==
    LET message == Message(from, to, msgno + 1)
    IN  IF session_id \in DOMAIN sessions
        THEN LET r == save_message(sessions[session_id], message)
             IN  /\ sessions' = [sessions EXCEPT ![session_id] = r.sess]
                 /\ last' = [op |-> "SendMessage", sid |-> session_id,
                             message |-> message,
                             resp |-> IF r.panic THEN NoReply ELSE RespOk]
                 /\ msgno' = IF r.panic THEN msgno ELSE msgno + 1
                 /\ saved' = IF r.panic THEN saved
                             ELSE [saved EXCEPT ![session_id] =
                                     [g \in Gamers |->
                                        IF g \in Addressees(Range(joinlog[session_id]), message)
                                        THEN Append(@[g], message) ELSE @[g]]]
                 /\ UNCHANGED <<joinlog, calls, fetched>>
        ELSE /\ last' = [op |-> "SendMessage", sid |-> session_id,
                         message |-> message, resp |-> RespError]
             /\ UNCHANGED <<sessions, msgno, joinlog, calls, saved, fetched>>

process_fetch_all_messages(session_id, gamer_id) ==
    IF session_id \in DOMAIN sessions
    THEN LET r == pop_gamer_messages(sessions[session_id], gamer_id)
         IN  /\ sessions' = [sessions EXCEPT ![session_id] = r.sess]
             /\ last' = [op |-> "FetchAllMessages", sid |-> session_id,
                         gamer |-> gamer_id, resp |-> RespOkWithMessages(r.out)]
             /\ fetched' = [fetched EXCEPT ![session_id][gamer_id] = @ \o r.out]
             /\ UNCHANGED <<msgno, joinlog, calls, saved>>
    ELSE /\ last' = [op |-> "FetchAllMessages", sid |-> session_id,
                     gamer |-> gamer_id, resp |-> RespError]
         /\ UNCHANGED <<sessions, msgno, joinlog, calls, saved, fetched>>

process_next_gamer(session_id) ==
    IF session_id \in DOMAIN sessions
    THEN LET r == next_gamer(sessions[session_id])
         IN  /\ sessions' = [sessions EXCEPT ![session_id] = r.sess]
             /\ last' = [op |-> "NextGamer", sid |-> session_id,
                         resp |-> IF r.panic THEN NoReply ELSE RespOk]
             /\ calls' = IF calls[session_id] >= 0 /\ ~r.panic
                         THEN [calls EXCEPT ![session_id] = @ + 1]
                         ELSE calls
             /\ UNCHANGED <<msgno, joinlog, saved, fetched>>
    ELSE /\ last' = [op |-> "NextGamer", sid |-> session_id, resp |-> RespError]
         /\ UNCHANGED <<sessions, msgno, joinlog, calls, saved, fetched>>

\* ------------------------------------------------------------------- Next
\* The bounds that keep the histories finite, as guards on the requests.
MayCall(s, maxCalls) == s \in DOMAIN sessions => calls[s] < maxCalls

MaySave(s, maxMsgs) == s \in DOMAIN sessions => msgno < maxMsgs

MayUpdate(s, g, maxUpdates) ==
    (s \in DOMAIN sessions /\ g \in DOMAIN sessions[s].user_states)
        => SumUpdates(sessions[s].user_states, DOMAIN sessions[s].user_states) < maxUpdates

\* The histories of SpecUpd and the tasks of SpecConc do not move in the other
\* specifications, which serve one request at a time.
Untracked == UNCHANGED <<before, updno, lastupd, hs, mutex, lin, turns>>

\* Spec: every request on an empty registry; any gamer joins, asks and fetches;
\* alice sends updates and broadcasts, bob writes to carol.
SpecMessages == {<<"alice", AddrAll>>, <<"bob", AddrOne("carol")>>}

Next ==
    \/ \E s \in SessionIds, g \in Gamers : process_join_session(s, g) /\ Untracked
    \/ \E s \in SessionIds : process_reset_session(s) /\ Untracked
    \/ \E s \in SessionIds : process_start_session(s) /\ Untracked
    \/ \E s \in SessionIds : process_end_session(s) /\ Untracked
    \/ \E s \in SessionIds, g \in Gamers : process_is_gamer_turn(s, g) /\ Untracked
    \/ \E s \in SessionIds : process_is_game_on(s) /\ Untracked
    \/ \E s \in SessionIds, u \in UpdateBytes :
          MayUpdate(s, "alice", MaxUpdates) /\ process_send_update(s, "alice", u) /\ Untracked
    \/ \E s \in SessionIds : process_get_previous_round_updates(s) /\ Untracked
    \/ \E s \in SessionIds, m \in SpecMessages :
          MaySave(s, MaxMsgs) /\ process_send_message(s, m[1], m[2]) /\ Untracked
    \/ \E s \in SessionIds, g \in Gamers : process_fetch_all_messages(s, g) /\ Untracked
    \/ \E s \in SessionIds : MayCall(s, MaxCalls) /\ process_next_gamer(s) /\ Untracked

Spec == Init /\ [][Next]_vars

\* SpecMail: the mailboxes of a session that alice and bob have joined, in that
\* order; carol may join later; senders and addresses mix All and One.
MailInit ==
    /\ sessions = MapPut(EmptyMap, "s1", join(join(GameSession_new, "alice"), "bob"))
    /\ last = [op |-> "JoinSession", sid |-> "s1", gamer |-> "bob", resp |-> RespOk]
    /\ msgno = 0
    /\ joinlog = [s \in RegSessionIds |-> IF s = "s1" THEN <<"alice", "bob">> ELSE <<>>]
    /\ calls = [s \in RegSessionIds |-> 0]
    /\ saved = [s \in RegSessionIds |-> [g \in Gamers |-> <<>>]]
    /\ fetched = [s \in RegSessionIds |-> [g \in Gamers |-> <<>>]]
    /\ before = NoRequest
    /\ updno = 0
    /\ lastupd = [s \in RegSessionIds |-> [g \in Gamers |-> 0]]
    /\ hs = [c \in Conns |-> NewHandler]
    /\ mutex = NewMutex
    /\ lin = NewLin(sessions)
    /\ turns = [s \in RegSessionIds |-> 0]

MailMessages ==
    {<<"alice", AddrAll>>, <<"bob", AddrAll>>,
     <<"carol", AddrOne("alice")>>, <<"bob", AddrOne("carol")>>}

MailNext ==
    \/ \E g \in {"bob", "carol"} : process_join_session("s1", g) /\ Untracked
    \/ process_reset_session("s1") /\ Untracked
    \/ process_start_session("s1") /\ Untracked
    \/ process_end_session("s1") /\ Untracked
    \/ process_is_gamer_turn("s1", "alice") /\ Untracked
    \/ process_is_game_on("s1") /\ Untracked
    \/ \E u \in UpdateBytes :
          MayUpdate("s1", "alice", MailUpdates) /\ process_send_update("s1", "alice", u) /\ Untracked
    \/ process_get_previous_round_updates("s1") /\ Untracked
    \/ \E m \in MailMessages :
          MaySave("s1", MailMsgs) /\ process_send_message("s1", m[1], m[2]) /\ Untracked
    \/ \E g \in Gamers : process_fetch_all_messages("s1", g) /\ Untracked
    \/ MayCall("s1", MailCalls) /\ process_next_gamer("s1") /\ Untracked

SpecMail == MailInit /\ [][MailNext]_vars

\* SpecReg: two session ids on an empty registry. alice joins s1 and s2; every
\* other request names either id, so it meets an id that is not in the
\* registry before and after the other one has been created.
RegJoins == {<<"s1", "alice">>, <<"s2", "alice">>}

RegMessages == {<<"bob", AddrOne("alice")>>}

RegNext ==
    \/ \E j \in RegJoins : process_join_session(j[1], j[2]) /\ Untracked
    \/ \E s \in RegSessionIds : process_reset_session(s) /\ Untracked
    \/ \E s \in RegSessionIds : process_start_session(s) /\ Untracked
    \/ \E s \in RegSessionIds : process_end_session(s) /\ Untracked
    \/ \E s \in RegSessionIds : process_is_gamer_turn(s, "alice") /\ Untracked
    \/ \E s \in RegSessionIds : process_is_game_on(s) /\ Untracked
    \/ \E s \in RegSessionIds, u \in UpdateBytes :
          MayUpdate(s, "alice", RegUpdates) /\ process_send_update(s, "alice", u) /\ Untracked
    \/ \E s \in RegSessionIds : process_get_previous_round_updates(s) /\ Untracked
    \/ \E s \in RegSessionIds, m \in RegMessages :
          MaySave(s, RegMsgs) /\ process_send_message(s, m[1], m[2]) /\ Untracked
    \/ \E s \in RegSessionIds : process_fetch_all_messages(s, "alice") /\ Untracked
    \/ \E s \in RegSessionIds : MayCall(s, RegCalls) /\ process_next_gamer(s) /\ Untracked

SpecReg == Init /\ [][RegNext]_vars

\* SpecUpd: one session on an empty registry with the histories of the updates.
\* Any gamer joins; alice and bob send updates, numbered in the order they are
\* accepted, also before they have joined; alice writes to bob.
Tracked ==
    /\ before' = [sessions |-> sessions,
                  reset |-> IF last.op = "ResetSession" /\ last.resp = RespOk
                            THEN {last.sid} ELSE {}]
    /\ updno' = IF last'.op = "SendUpdate" /\ last'.resp = RespOk
                THEN updno + 1 ELSE updno
    /\ lastupd' = IF last'.op = "SendUpdate" /\ last'.resp = RespOk
                  THEN [lastupd EXCEPT ![last'.sid][last'.gamer] = last'.update]
                  ELSE IF last'.op = "ResetSession" /\ last'.resp = RespOk
                  THEN [lastupd EXCEPT ![last'.sid] = [g \in Gamers |-> 0]]
                  ELSE lastupd
    /\ UNCHANGED <<hs, mutex, lin, turns>>

UpdSenders == {"alice", "bob"}

UpdMessages == {<<"alice", AddrOne("bob")>>}

UpdNext ==
    \/ \E g \in Gamers : process_join_session("s1", g) /\ Tracked
    \/ process_reset_session("s1") /\ Tracked
    \/ process_start_session("s1") /\ Tracked
    \/ process_end_session("s1") /\ Tracked
    \/ process_is_gamer_turn("s1", "alice") /\ Tracked
    \/ process_is_game_on("s1") /\ Tracked
    \/ \E g \in UpdSenders :
          updno < UpdUpdates /\ process_send_update("s1", g, updno + 1) /\ Tracked
    \/ process_get_previous_round_updates("s1") /\ Tracked
    \/ \E m \in UpdMessages :
          MaySave("s1", UpdMsgs) /\ process_send_message("s1", m[1], m[2]) /\ Tracked
    \/ process_fetch_all_messages("s1", "bob") /\ Tracked
    \/ MayCall("s1", UpdCalls) /\ process_next_gamer("s1") /\ Tracked

SpecUpd == Init /\ [][UpdNext]_vars

\* SpecTurn: the turn index of one session on an empty registry. Any gamer
\* joins at any time; reset, start, end and next_gamer come in any state of
\* the session; turns counts every next_gamer call answered Ok since the
\* session was created or last reset, whoever joined in between.
Counted ==
    /\ turns' = IF last'.op = "NextGamer" /\ last'.resp = RespOk
                THEN [turns EXCEPT ![last'.sid] = @ + 1]
                ELSE IF last'.op = "ResetSession" /\ last'.resp = RespOk
                THEN [turns EXCEPT ![last'.sid] = 0]
                ELSE turns
    /\ UNCHANGED <<before, updno, lastupd, hs, mutex, lin>>

TurnNext ==
    \/ \E g \in Gamers : process_join_session("s1", g) /\ Counted
    \/ process_reset_session("s1") /\ Counted
    \/ process_start_session("s1") /\ Counted
    \/ process_end_session("s1") /\ Counted
    \/ \E g \in Gamers : process_is_gamer_turn("s1", g) /\ Counted
    \/ turns["s1"] < TurnCalls /\ process_next_gamer("s1") /\ Counted

SpecTurn == Init /\ [][TurnNext]_vars

\* SpecIso: two sessions on an empty registry that share a gamer. alice joins
\* s1 and s2, bob joins s1; the requests that change a session name either
\* session, the turn is asked of s1, the game state and the latest updates of s2.
IsoJoins == {<<"s1", "alice">>, <<"s1", "bob">>, <<"s2", "alice">>}

IsoMessages == {<<"bob", AddrOne("alice")>>}

\* The length of all update histories of a session, 0 for an id not in the registry.
UpdatesIn(s) ==
    IF s \in DOMAIN sessions
    THEN SumUpdates(sessions[s].user_states, DOMAIN sessions[s].user_states)
    ELSE 0

IsoNext ==
    \/ \E j \in IsoJoins : process_join_session(j[1], j[2]) /\ Untracked
    \/ \E s \in RegSessionIds : process_reset_session(s) /\ Untracked
    \/ \E s \in RegSessionIds : process_start_session(s) /\ Untracked
    \/ \E s \in RegSessionIds : process_end_session(s) /\ Untracked
    \/ process_is_gamer_turn("s1", "alice") /\ Untracked
    \/ process_is_game_on("s2") /\ Untracked
    \/ \E s \in RegSessionIds, u \in UpdateBytes :
          /\ UpdatesIn("s1") + UpdatesIn("s2") < IsoUpdates
          /\ process_send_update(s, "alice", u) /\ Untracked
    \/ process_get_previous_round_updates("s2") /\ Untracked
    \/ \E s \in RegSessionIds, m \in IsoMessages :
          MaySave(s, IsoMsgs) /\ process_send_message(s, m[1], m[2]) /\ Untracked
    \/ \E s \in RegSessionIds : process_fetch_all_messages(s, "alice") /\ Untracked
    \/ \E s \in RegSessionIds : MayCall(s, IsoCalls) /\ process_next_gamer(s) /\ Untracked

SpecIso == Init /\ [][IsoNext]_vars

\* ------------------------------------------------------- handler tasks
\* SpecConc: the handler tasks MGNServer::run spawns, one per connection, as
\* they read, decode, take the registry lock, serve the request, reply and
\* shut the writer down. A request is a record [op, sid, ...]; op "garbage"
\* stands for bytes that do not decode as an Operation.

\* bincode::decode_from_slice answers Ok for the request.
Decodes(req) == req.op # "garbage"

\* The request served on registry reg, as process() dispatches it: the
\* registry after it and the response given to reply_client (NoReply: the
\* task panicked). payload is the payload of a SendMessage.
Serve(reg, req, payload) ==
    IF req.op = "JoinSession"
    THEN [sessions |-> MapPut(reg, req.sid,
                              join(IF req.sid \in DOMAIN reg THEN reg[req.sid]
                                   ELSE GameSession_new, req.gamer)),
          resp |-> RespOk]
    ELSE IF req.sid \notin DOMAIN reg
    THEN [sessions |-> reg, resp |-> RespError]
    ELSE LET sess == reg[req.sid]
             put(x) == [reg EXCEPT ![req.sid] = x]
         IN  CASE req.op = "ResetSession" -> [sessions |-> put(reset(sess)), resp |-> RespOk]
               [] req.op = "StartSession" -> [sessions |-> put(start(sess)), resp |-> RespOk]
               [] req.op = "EndSession" -> [sessions |-> put(end(sess)), resp |-> RespOk]
               [] req.op = "IsGameOn" ->
                    [sessions |-> reg, resp |-> RespOkWithBool(is_game_on(sess))]
               [] req.op = "IsGamerTurn" ->
                    [sessions |-> reg, resp |-> RespOkWithBool(is_gamer_turn(sess, req.gamer))]
               [] req.op = "SendUpdate" ->
                    LET r == add_update(sess, req.gamer, req.update)
                    IN  [sessions |-> put(r.sess),
                         resp |-> IF r.ok THEN RespOk ELSE RespError]
               [] req.op = "GetPreviousRoundUpdates" ->
                    [sessions |-> reg,
                     resp |-> RespOkWithPreviousRoundUpdates(previous_round_updates(sess))]
               [] req.op = "SendMessage" ->
                    LET r == save_message(sess, Message(req.from, req.to, payload))
                    IN  [sessions |-> put(r.sess),
                         resp |-> IF r.panic THEN NoReply ELSE RespOk]
               [] req.op = "FetchAllMessages" ->
                    LET r == pop_gamer_messages(sess, req.gamer)
                    IN  [sessions |-> put(r.sess), resp |-> RespOkWithMessages(r.out)]
               [] req.op = "NextGamer" ->
                    LET r == next_gamer(sess)
                    IN  [sessions |-> put(r.sess),
                         resp |-> IF r.panic THEN NoReply ELSE RespOk]

\* Variant: the lock is granted whoever holds it.
MutexFree_always(m) == TRUE

\* Mutex::lock grants the lock at once: nobody holds it and nobody waits.
MutexFree(m) == m.holder = "none" /\ m.queue = <<>>

\* Variant: the guard goes without the lock being passed to the first waiter.
Release_no_wake(m) == [holder |-> "none", queue |-> m.queue]

\* Drop of the MutexGuard: the lock passes to the first waiter, if any.
Release(m) ==
    IF m.queue = <<>>
    THEN [holder |-> "none", queue |-> <<>>]
    ELSE [holder |-> Head(m.queue), queue |-> Tail(m.queue)]

\* Variant: the guard is not dropped when the task panics.
Unwind_keeps_guard(m) == m

\* The panic of a task unwinds its stack: the guard it owns is dropped.
Unwind(m) == Release(m)

\* The handlers whose reply_client runs in the scope of the guard: those
\* without an inner block, and every Error reply.
HoldsWhileReplying(op, resp) ==
    \/ op \in {"SendMessage", "FetchAllMessages", "NextGamer"}
    \/ resp = RespError

\* The history of the requests served one at a time: c has acquired the lock.
Acquired(c) ==
    LET r == Serve(lin.sessions, hs[c].req, msgno + 1)
    IN  [sessions |-> r.sessions,
         resp |-> [lin.resp EXCEPT ![c] = r.resp],
         order |-> Append(lin.order, c)]

Registry ==
    <<sessions, last, msgno, joinlog, calls, saved, fetched, before, updno, lastupd, turns>>

\* Variant: the handler takes the registry lock before it reads the request.
Accept_locking(c, req) ==
    /\ hs[c].pc = "idle"
    /\ MutexFree(mutex)
    /\ hs' = [hs EXCEPT ![c].pc = "reading", ![c].req = req, ![c].guard = TRUE]
    /\ mutex' = [mutex EXCEPT !.holder = c]
    /\ UNCHANGED <<Registry, lin>>

\* run: a connection is accepted and its handler spawned; req is what the
\* client is sending.
Accept(c, req) ==
    /\ hs[c].pc = "idle"
    /\ hs' = [hs EXCEPT ![c].pc = "reading", ![c].req = req]
    /\ UNCHANGED <<Registry, mutex, lin>>

\* process: reader.read answers Ok(0), the client has closed its write side.
ReadEof(c) ==
    /\ hs[c].pc = "reading"
    /\ hs' = [hs EXCEPT ![c].pc = "decode"]
    /\ UNCHANGED <<Registry, mutex, lin>>

\* process: reader.read answers Err, the task returns.
ReadErr(c) ==
    /\ hs[c].pc = "reading"
    /\ hs' = [hs EXCEPT ![c].pc = "read_failed"]
    /\ UNCHANGED <<Registry, mutex, lin>>

\* Variant: bytes that do not decode are dropped without a response.
DecodeFail_silent(c) ==
    /\ hs[c].pc = "decode"
    /\ ~Decodes(hs[c].req)
    /\ hs' = [hs EXCEPT ![c].pc = "shutdown"]
    /\ UNCHANGED <<Registry, mutex, lin>>

\* process: the bytes do not decode; Error is written without the lock.
DecodeFail(c) ==
    /\ hs[c].pc = "decode"
    /\ ~Decodes(hs[c].req)
    /\ hs' = [hs EXCEPT ![c].pc = "shutdown", ![c].resp = RespError,
                        ![c].writes = @ + 1]
    /\ UNCHANGED <<Registry, mutex, lin>>

\* process_*: world_state.lock().await; granted at once or queued.
Lock(c) ==
    /\ hs[c].pc = "decode"
    /\ Decodes(hs[c].req)
    /\ IF MutexFree(mutex)
       THEN /\ mutex' = [mutex EXCEPT !.holder = c]
            /\ hs' = [hs EXCEPT ![c].pc = "locked", ![c].guard = TRUE]
            /\ lin' = Acquired(c)
       ELSE /\ mutex' = [mutex EXCEPT !.queue = Append(@, c)]
            /\ hs' = [hs EXCEPT ![c].pc = "waiting", ![c].waited = TRUE]
            /\ lin' = lin
    /\ UNCHANGED Registry

\* process_*: the waiting task is polled after the lock was passed to it.
Wake(c) ==
    /\ hs[c].pc = "waiting"
    /\ mutex.holder = c
    /\ hs' = [hs EXCEPT ![c].pc = "locked", ![c].guard = TRUE]
    /\ lin' = Acquired(c)
    /\ UNCHANGED <<Registry, mutex>>

\* The end of the handler's work on the registry, last' being the response:
\* a panic unwinds; a reply in the scope of the guard keeps the lock; else the
\* guard is dropped at the end of the block.
Leave(c) ==
    IF last'.resp = NoReply
    THEN /\ hs' = [hs EXCEPT ![c].pc = "panicked", ![c].guard = FALSE]
         /\ mutex' = Unwind(mutex)
    ELSE IF HoldsWhileReplying(hs[c].req.op, last'.resp)
    THEN /\ hs' = [hs EXCEPT ![c].pc = "reply", ![c].resp = last'.resp]
         /\ mutex' = mutex
    ELSE /\ hs' = [hs EXCEPT ![c].pc = "reply", ![c].resp = last'.resp,
                             ![c].guard = FALSE]
         /\ mutex' = Release(mutex)

\* process_*: the lookup and the call on the session, under the lock.
Exec(c) ==
    LET r == hs[c].req
    IN  /\ hs[c].pc = "locked"
        /\ \/ r.op = "JoinSession" /\ process_join_session(r.sid, r.gamer)
           \/ r.op = "ResetSession" /\ process_reset_session(r.sid)
           \/ r.op = "StartSession" /\ process_start_session(r.sid)
           \/ r.op = "EndSession" /\ process_end_session(r.sid)
           \/ r.op = "IsGamerTurn" /\ process_is_gamer_turn(r.sid, r.gamer)
           \/ r.op = "IsGameOn" /\ process_is_game_on(r.sid)
           \/ r.op = "SendUpdate" /\ process_send_update(r.sid, r.gamer, r.update)
           \/ r.op = "GetPreviousRoundUpdates" /\ process_get_previous_round_updates(r.sid)
           \/ r.op = "SendMessage" /\ process_send_message(r.sid, r.from, r.to)
           \/ r.op = "FetchAllMessages" /\ process_fetch_all_messages(r.sid, r.gamer)
           \/ r.op = "NextGamer" /\ process_next_gamer(r.sid)
        /\ Leave(c)
        /\ UNCHANGED <<before, updno, lastupd, lin, turns>>

\* reply_client: the response is written; a guard still owned is dropped when
\* the handler returns.
Reply(c) ==
    /\ hs[c].pc = "reply"
    /\ hs' = [hs EXCEPT ![c].pc = "shutdown", ![c].writes = @ + 1, ![c].guard = FALSE]
    /\ mutex' = IF hs[c].guard THEN Release(mutex) ELSE mutex
    /\ UNCHANGED <<Registry, lin>>

\* process: writer.shutdown(), the task ends.
Shutdown(c) ==
    /\ hs[c].pc = "shutdown"
    /\ hs' = [hs EXCEPT ![c].pc = "done", ![c].closed = TRUE]
    /\ UNCHANGED <<Registry, mutex, lin>>

\* The requests of the three connections on a session alice and bob play.
ConcRequests ==
    [c \in Conns |->
        CASE c = "c1" ->
               {[op |-> "JoinSession", sid |-> "s1", gamer |-> "carol"],
                [op |-> "StartSession", sid |-> "s1"],
                [op |-> "NextGamer", sid |-> "s1"],
                [op |-> "SendMessage", sid |-> "s1", from |-> "alice", to |-> AddrAll],
                [op |-> "garbage"]}
          [] c = "c2" ->
               {[op |-> "SendMessage", sid |-> "s1", from |-> "alice", to |-> AddrOne("mallory")],
                [op |-> "ResetSession", sid |-> "s1"],
                [op |-> "EndSession", sid |-> "s1"],
                [op |-> "IsGameOn", sid |-> "s2"],
                [op |-> "FetchAllMessages", sid |-> "s1", gamer |-> "bob"],
                [op |-> "SendUpdate", sid |-> "s1", gamer |-> "mallory", update |-> "u1"]}
          [] c = "c3" ->
               {[op |-> "IsGamerTurn", sid |-> "s1", gamer |-> "bob"],
                [op |-> "IsGameOn", sid |-> "s1"],
                [op |-> "GetPreviousRoundUpdates", sid |-> "s1"],
                [op |-> "garbage"]}]

\* The registry after alice and bob joined s1 and the session was started.
ConcInit ==
    /\ sessions = MapPut(EmptyMap, "s1", start(join(join(GameSession_new, "alice"), "bob")))
    /\ last = [op |-> "StartSession", sid |-> "s1", resp |-> RespOk]
    /\ msgno = 0
    /\ joinlog = [s \in RegSessionIds |-> IF s = "s1" THEN <<"alice", "bob">> ELSE <<>>]
    /\ calls = [s \in RegSessionIds |-> 0]
    /\ saved = [s \in RegSessionIds |-> [g \in Gamers |-> <<>>]]
    /\ fetched = [s \in RegSessionIds |-> [g \in Gamers |-> <<>>]]
    /\ before = NoRequest
    /\ updno = 0
    /\ lastupd = [s \in RegSessionIds |-> [g \in Gamers |-> 0]]
    /\ hs = [c \in Conns |-> NewHandler]
    /\ mutex = NewMutex
    /\ lin = NewLin(sessions)
    /\ turns = [s \in RegSessionIds |-> 0]

ConcNext ==
    \/ \E c \in Conns : \E req \in ConcRequests[c] : Accept(c, req)
    \/ \E c \in Conns : ReadEof(c)
    \/ \E c \in Conns : ReadErr(c)
    \/ \E c \in Conns : DecodeFail(c)
    \/ \E c \in Conns : Lock(c)
    \/ \E c \in Conns : Wake(c)
    \/ \E c \in Conns : Exec(c)
    \/ \E c \in Conns : Reply(c)
    \/ \E c \in Conns : Shutdown(c)

SpecConc == ConcInit /\ [][ConcNext]_vars

\* The tokio runtime polls every task that can run, the lock is passed to the
\* waiters in order and a response fits the socket buffer: every step of a
\* handler past its read is taken once it can be. Nothing makes a client
\* connect or close its write side.
ConcFairness ==
    \A c \in Conns :
        /\ WF_vars(DecodeFail(c))
        /\ WF_vars(Lock(c))
        /\ WF_vars(Wake(c))
        /\ WF_vars(Exec(c))
        /\ WF_vars(Reply(c))
        /\ WF_vars(Shutdown(c))

SpecConcFair == ConcInit /\ [][ConcNext]_vars /\ ConcFairness

\* ----------------------------------------------------------------- claims
Participants(s) == Range(joinlog[s])

Mailbox(sess, g) == sess.user_states[g].awaiting_messages

IsPrefix(a, b) == Len(a) <= Len(b) /\ SubSeq(b, 1, Len(a)) = a

IsSuffix(a, b) == Len(a) <= Len(b) /\ SubSeq(b, Len(b) - Len(a) + 1, Len(b)) = a

Occurrences(seq, x) == Cardinality({i \in 1..Len(seq) : seq[i] = x})

\* A gamer id that no request ever joins.
Stranger == "mallory"

\* C1: in every reachable state, every session of the registry that has
\* participants has 0 <= current_gamer_index < number of participants.
C1_TurnIndexInRange ==
    \A s \in DOMAIN sessions :
        Len(sessions[s].sequence) > 0 =>
            /\ sessions[s].current_gamer_index >= 0
            /\ sessions[s].current_gamer_index < Len(sessions[s].sequence)

\* C1 witness: next_gamer has just wrapped the index of a three-gamer session
\* that saw a message and an update.
C1_Witness ==
    /\ last.op = "NextGamer" /\ last.resp = RespOk
    /\ Len(sessions[last.sid].sequence) = 3
    /\ sessions[last.sid].current_gamer_index = 0
    /\ calls[last.sid] = 3
    /\ msgno > 0

\* C2: every session of the registry has at least one participant (and a
\* user state for it), so no NextGamer request ever ends in the
\* remainder-by-zero panic.
C2_NoEmptySession ==
    /\ \A s \in DOMAIN sessions :
          /\ Len(sessions[s].sequence) >= 1
          /\ DOMAIN sessions[s].user_states # {}
    /\ ~(last.op = "NextGamer" /\ last.resp = NoReply)

\* C2 witness: NextGamer answered Ok on a session with a single participant.
C2_Witness ==
    /\ last.op = "NextGamer" /\ last.resp = RespOk
    /\ Len(sessions[last.sid].sequence) = 1

\* Every gamer that joined occurs once in the sequence, no other gamer occurs.
C3_NoDuplicates ==
    \A s \in DOMAIN sessions : \A g \in Gamers \cup {Stranger} :
        Occurrences(sessions[s].sequence, g) = IF g \in Participants(s) THEN 1 ELSE 0

C3_RejoinChangesNothing ==
    (/\ last'.op = "JoinSession"
     /\ last'.sid \in DOMAIN sessions
     /\ last'.gamer \in Participants(last'.sid))
        => /\ sessions' = sessions
           /\ last'.resp = RespOk

\* C3: the participants of a session hold every gamer that joined exactly
\* once and no other gamer, and a JoinSession naming a gamer that is already
\* a participant leaves the whole registry (participants, turn order, all
\* else) unchanged and answers Ok.
C3_JoinOnce == [](C3_NoDuplicates) /\ [][C3_RejoinChangesNothing]_vars

\* C3 witness: the first joiner of a three-gamer session has just joined
\* again while the turn index is 1.
C3_Witness ==
    /\ last.op = "JoinSession"
    /\ Len(sessions[last.sid].sequence) = 3
    /\ sessions[last.sid].sequence[1] = last.gamer
    /\ sessions[last.sid].current_gamer_index = 1

\* What the claim says isGamerTurn answers.
TurnHolder(sess, g) ==
    /\ sess.state = "Game"
    /\ sess.current_gamer_index + 1 \in DOMAIN sess.sequence
    /\ sess.sequence[sess.current_gamer_index + 1] = g

\* C4: is_gamer_turn(g) is true iff the state is Game and g is the
\* participant at position current_gamer_index; so it is false in Join and
\* Over and for a gamer that never joined, and an IsGamerTurn request on an
\* existing session is answered OkWithBool of that value, never Error.
C4_IsGamerTurn ==
    /\ \A s \in DOMAIN sessions : \A g \in Gamers \cup {Stranger} :
          /\ is_gamer_turn(sessions[s], g) = TurnHolder(sessions[s], g)
          /\ sessions[s].state # "Game" => ~is_gamer_turn(sessions[s], g)
          /\ g \notin Participants(s) => ~is_gamer_turn(sessions[s], g)
    /\ (last.op = "IsGamerTurn" /\ last.sid \in DOMAIN sessions)
          => last.resp = RespOkWithBool(TurnHolder(sessions[last.sid], last.gamer))

\* C4 witness: IsGamerTurn answered true for the third participant.
C4_Witness ==
    /\ last.op = "IsGamerTurn" /\ last.resp = RespOkWithBool(TRUE)
    /\ sessions[last.sid].current_gamer_index = 2
    /\ sessions[last.sid].sequence[3] = last.gamer

\* C4 witness of the other answer: false for the gamer at the index, state Over.
C4_WitnessOver ==
    /\ last.op = "IsGamerTurn" /\ last.resp = RespOkWithBool(FALSE)
    /\ sessions[last.sid].state = "Over"
    /\ sessions[last.sid].sequence[sessions[last.sid].current_gamer_index + 1] = last.gamer

\* C5: after k next_gamer calls since the session was created or last reset,
\* with no new gamer joining after the first of them, current_gamer_index is
\* k mod n, n being the number of participants.
C5_IndexIsCallsModN ==
    \A s \in DOMAIN sessions :
        calls[s] >= 0 =>
            sessions[s].current_gamer_index = calls[s] % Len(sessions[s].sequence)

\* C5 witness: three calls on a session of two participants (index 1).
C5_Witness ==
    /\ last.op = "NextGamer"
    /\ calls[last.sid] = 3
    /\ Len(sessions[last.sid].sequence) = 2
    /\ sessions[last.sid].current_gamer_index = 1

\* A StartSession on a session in Join on which no next_gamer ran since
\* creation or reset: the game is on, the first joiner alone has the turn.
C6_StartGivesFirstJoiner ==
    (/\ last'.op = "StartSession"
     /\ last'.sid \in DOMAIN sessions
     /\ sessions[last'.sid].state = "Join"
     /\ calls[last'.sid] = 0)
        => /\ last'.resp = RespOk
           /\ is_game_on(sessions'[last'.sid])
           /\ \A g \in Gamers \cup {Stranger} :
                 is_gamer_turn(sessions'[last'.sid], g) <=> g = joinlog[last'.sid][1]

\* A NextGamer during the game: the turn goes from the i-th joiner to the
\* next one in join order, from the last to the first.
C6_NextPassesTurn ==
    (/\ last'.op = "NextGamer"
     /\ last'.sid \in DOMAIN sessions
     /\ sessions[last'.sid].state = "Game")
        => LET order == joinlog[last'.sid]
               n == Len(order)
           IN  /\ last'.resp = RespOk
               /\ \E i \in 1..n :
                     /\ is_gamer_turn(sessions[last'.sid], order[i])
                     /\ \A g \in Gamers \cup {Stranger} :
                           is_gamer_turn(sessions'[last'.sid], g) <=> g = order[(i % n) + 1]

\* C6: turn order is join order. A StartSession on a session in Join on which
\* no next_gamer ran since creation or reset turns the game on and gives the
\* turn to the first joiner only; each NextGamer during the game passes the
\* turn from the i-th joiner to the next one in join order, the last to the
\* first.
C6_TurnOrderIsJoinOrder == [][C6_StartGivesFirstJoiner /\ C6_NextPassesTurn]_vars

\* C6 witness: in a running three-gamer game the turn has come back from the
\* last joiner to the first.
C6_Witness ==
    /\ last.op = "NextGamer" /\ last.resp = RespOk
    /\ sessions[last.sid].state = "Game"
    /\ Len(joinlog[last.sid]) = 3
    /\ calls[last.sid] = 3
    /\ is_gamer_turn(sessions[last.sid], joinlog[last.sid][1])

\* The registry after a SendMessage is the registry before with the message
\* appended to the mailboxes of its addressees.
C7_SaveMessageTargets ==
    (last'.op = "SendMessage" /\ last'.sid \in DOMAIN sessions)
        => LET s == last'.sid
               m == last'.message
               targets == Addressees(Participants(s), m)
           IN  sessions' =
                 [sessions EXCEPT ![s].user_states =
                    [g \in DOMAIN @ |->
                        IF g \in targets
                        THEN [@[g] EXCEPT !.awaiting_messages = Append(@, m)]
                        ELSE @[g]]]

\* C7: a SendMessage on an existing session appends the message to the
\* mailbox of every participant it is addressed to (All: every participant but
\* message.from; One(id): id) and changes nothing else in the registry.
C7_SaveMessage == [][C7_SaveMessageTargets]_vars

\* C7 witness: alice's All reached bob and carol but not alice.
C7_Witness ==
    /\ last.op = "SendMessage" /\ last.resp = RespOk
    /\ last.message.to = AddrAll /\ last.message.from = "alice"
    /\ Participants(last.sid) = {"alice", "bob", "carol"}
    /\ \A g \in {"bob", "carol"} :
          LET box == Mailbox(sessions[last.sid], g)
          IN  Len(box) > 0 /\ box[Len(box)] = last.message
    /\ last.message \notin Range(Mailbox(sessions[last.sid], "alice"))
    /\ Mailbox(sessions[last.sid], "alice") # <<>>

\* The effect of one FetchAllMessages of a participant.
C8_FetchDrains ==
    (/\ last'.op = "FetchAllMessages"
     /\ last'.sid \in DOMAIN sessions
     /\ last'.gamer \in Participants(last'.sid))
        => LET s == last'.sid
               g == last'.gamer
           IN  /\ last'.resp = RespOkWithMessages(Mailbox(sessions[s], g))
               /\ Mailbox(sessions'[s], g) = <<>>
               /\ (last.op = "FetchAllMessages" /\ last.sid = s /\ last.gamer = g)
                     => last'.resp = RespOkWithMessages(<<>>)
               /\ Range(last'.resp.messages) \cap Range(fetched[s][g]) = {}

\* C8: a FetchAllMessages of a participant answers OkWithMessages with the
\* whole mailbox and leaves it empty; fetched again right away it answers
\* OkWithMessages(<<>>); no message is returned to the gamer a second time.
C8_DrainExactlyOnce == [][C8_FetchDrains]_vars

\* C8 witness: a gamer that was sent messages and fetched them all has just
\* fetched again and got the empty sequence.
C8_Witness ==
    /\ last.op = "FetchAllMessages" /\ last.resp = RespOkWithMessages(<<>>)
    /\ Len(fetched[last.sid][last.gamer]) = 2
    /\ saved[last.sid][last.gamer] = fetched[last.sid][last.gamer]

\* What was saved for a gamer is what was returned followed by what is pending.
C9_NothingLost ==
    \A s \in DOMAIN sessions : \A g \in Gamers :
        IF g \in Participants(s)
        THEN saved[s][g] = fetched[s][g] \o Mailbox(sessions[s], g)
        ELSE saved[s][g] = <<>> /\ fetched[s][g] = <<>>

\* A step that is not the gamer's own fetch keeps the mailbox as a prefix; the
\* gamer's own fetch has returned all that was saved.
C9_OnlyOwnFetchRemoves ==
    \A s \in DOMAIN sessions : \A g \in DOMAIN sessions[s].user_states :
        /\ s \in DOMAIN sessions'
        /\ g \in DOMAIN sessions'[s].user_states
        /\ IF last'.op = "FetchAllMessages" /\ last'.sid = s /\ last'.gamer = g
           THEN fetched'[s][g] = saved[s][g]
           ELSE IsPrefix(Mailbox(sessions[s], g), Mailbox(sessions'[s], g))

\* C9: no request but a FetchAllMessages naming the gamer removes anything
\* from the gamer's mailbox (the mailbox before is a prefix of the mailbox
\* after), that fetch returns all that was saved for the gamer and not yet
\* returned, and at all times what was saved for a gamer is what was returned
\* followed by what is pending: no entry is dropped.
C9_RemovedOnlyByOwnFetch == [](C9_NothingLost) /\ [][C9_OnlyOwnFetchRemoves]_vars

\* C9 witness: a reset has run while two gamers had pending messages.
C9_Witness ==
    /\ last.op = "ResetSession" /\ last.resp = RespOk
    /\ Cardinality({g \in Participants(last.sid) :
                       Mailbox(sessions[last.sid], g) # <<>>}) >= 2

Increasing(ms) == \A i, j \in 1..Len(ms) : i < j => ms[i].payload < ms[j].payload

\* C10: mailboxes are FIFO. Payloads number the messages in the order the
\* server saved them: what a gamer was returned followed by what is pending
\* is in that order, and a fetch returns its messages in that order, after
\* everything returned before.
C10_MailboxFifo ==
    /\ \A s \in DOMAIN sessions : \A g \in DOMAIN sessions[s].user_states :
          Increasing(fetched[s][g] \o Mailbox(sessions[s], g))
    /\ (last.op = "FetchAllMessages" /\ last.resp.tag = "OkWithMessages")
          => /\ Increasing(last.resp.messages)
             /\ IsSuffix(last.resp.messages, fetched[last.sid][last.gamer])

\* C10 witness: one fetch returned an All of one sender and then a One of
\* another.
C10_Witness ==
    /\ last.op = "FetchAllMessages" /\ last.resp.tag = "OkWithMessages"
    /\ Len(last.resp.messages) = 2
    /\ last.resp.messages[1].to = AddrAll
    /\ last.resp.messages[2].to.kind = "One"
    /\ last.resp.messages[1].from # last.resp.messages[2].from

\* ------------------------------------------------------- claims, registry
\* The ten operations that are not join.
NonJoinOps ==
    {"ResetSession", "StartSession", "EndSession", "IsGamerTurn", "IsGameOn",
     "NextGamer", "SendUpdate", "GetPreviousRoundUpdates", "SendMessage",
     "FetchAllMessages"}

\* A request other than JoinSession that names an id not in the registry.
C11_UnknownSessionStep ==
    (last'.op \in NonJoinOps /\ last'.sid \notin DOMAIN sessions)
        => /\ last'.resp = RespError
           /\ sessions' = sessions

\* C11: every request other than JoinSession that names a session id not in
\* the registry is answered Error and leaves the registry as it was; it does
\* not create the session.
C11_UnknownSession == [][C11_UnknownSessionStep]_vars

\* C11 witness: one of the ten requests was answered Error for an id that is
\* not in the registry while the other session exists, here a SendMessage.
C11_Witness ==
    /\ last.op = "SendMessage" /\ last.resp = RespError
    /\ last.sid \notin DOMAIN sessions
    /\ DOMAIN sessions # {}

\* A step that changes the set of session ids.
C12_RegistryStep ==
    /\ DOMAIN sessions \subseteq DOMAIN sessions'
    /\ DOMAIN sessions' # DOMAIN sessions =>
          /\ last'.op = "JoinSession"
          /\ last'.sid \notin DOMAIN sessions
          /\ DOMAIN sessions' = DOMAIN sessions \cup {last'.sid}
          /\ sessions'[last'.sid] =
                [user_states |-> MapPut(EmptyMap, last'.gamer, UserState_default),
                 sequence |-> <<last'.gamer>>,
                 current_gamer_index |-> 0,
                 state |-> "Join"]
    /\ (last'.op = "JoinSession" /\ last'.sid \notin DOMAIN sessions)
          => last'.sid \in DOMAIN sessions'

\* C12: the registry starts empty; a session id enters it only by a
\* JoinSession naming an id not yet present, the new session being in Join
\* with turn index 0 and the joiner as its only participant; no id ever
\* leaves it.
C12_RegistryGrows == sessions = EmptyMap /\ [][C12_RegistryStep]_vars

\* C12 witness: the second session has just been created next to the first,
\* which is no longer in its initial state.
C12_Witness ==
    /\ last.op = "JoinSession"
    /\ DOMAIN sessions = {"s1", "s2"}
    /\ sessions[last.sid].sequence = <<last.gamer>>
    /\ sessions[last.sid].state = "Join"
    /\ \E s \in DOMAIN sessions : s # last.sid /\ sessions[s].state = "Over"

\* ------------------------------------------------- claims, state machine
\* The request handled last addressed a session that was in the registry.
Handled(op) == last.op = op /\ last.sid \in DOMAIN before.sessions

\* C13: the state of a session changes only by start from Join to Game, by end
\* from Game to Over and by reset to Join; every other request leaves it as
\* it was, and a reset always leaves the session in Join.
C13_StateTransitions ==
    /\ \A s \in DOMAIN before.sessions :
          LET old == before.sessions[s].state
              new == sessions[s].state
          IN  old # new =>
                /\ last.sid = s
                /\ \/ last.op = "StartSession" /\ old = "Join" /\ new = "Game"
                   \/ last.op = "EndSession" /\ old = "Game" /\ new = "Over"
                   \/ last.op = "ResetSession" /\ new = "Join"
    /\ Handled("ResetSession") => sessions[last.sid].state = "Join"

\* A reset has taken a session from Over back to Join.
C13_Witness ==
    /\ Handled("ResetSession")
    /\ before.sessions[last.sid].state = "Over"
    /\ sessions[last.sid].state = "Join"

\* C14: start on a session of the registry answers Ok; the session goes from
\* Join to Game with nothing else changed, and is left as it was when it was
\* in Game or Over.
C14_Start ==
    Handled("StartSession") =>
        LET old == before.sessions[last.sid]
        IN  /\ last.resp = RespOk
            /\ sessions[last.sid] =
                  IF old.state = "Join" THEN [old EXCEPT !.state = "Game"] ELSE old

\* start on a session that is Over with two participants: answered Ok, still Over.
C14_Witness ==
    /\ Handled("StartSession")
    /\ before.sessions[last.sid].state = "Over"
    /\ Len(sessions[last.sid].sequence) = 2
    /\ last.resp = RespOk

\* C15: end on a session of the registry answers Ok; the session goes from
\* Game to Over with nothing else changed, and is left as it was when it was
\* in Join or Over.
C15_End ==
    Handled("EndSession") =>
        LET old == before.sessions[last.sid]
        IN  /\ last.resp = RespOk
            /\ sessions[last.sid] =
                  IF old.state = "Game" THEN [old EXCEPT !.state = "Over"] ELSE old

\* end on a session still in Join with two participants: answered Ok, still Join.
C15_Witness ==
    /\ Handled("EndSession")
    /\ before.sessions[last.sid].state = "Join"
    /\ Len(sessions[last.sid].sequence) = 2
    /\ last.resp = RespOk

\* ---------------------------------------------------------- claims, reset
\* C16: a reset of a session of the registry, whatever its state, leaves the
\* session in Join with turn index 0 and an empty update history for every
\* participant; a getPreviousRoundUpdates handled right after the reset
\* reports an absent value for every participant.
C16_Reset ==
    /\ Handled("ResetSession") =>
          LET new == sessions[last.sid]
          IN  /\ last.resp = RespOk
              /\ new.state = "Join"
              /\ new.current_gamer_index = 0
              /\ \A g \in Participants(last.sid) :
                    /\ g \in DOMAIN new.user_states
                    /\ new.user_states[g].updates = <<>>
    /\ (last.op = "GetPreviousRoundUpdates" /\ last.sid \in before.reset) =>
          /\ last.resp.tag = "OkWithPreviousRoundUpdates"
          /\ \A g \in Participants(last.sid) :
                /\ g \in DOMAIN last.resp.map
                /\ last.resp.map[g] = [some |-> FALSE]

\* Updates had been accepted, the session of two or more participants was
\* reset, and the getPreviousRoundUpdates that followed has been answered.
C16_Witness ==
    /\ last.op = "GetPreviousRoundUpdates"
    /\ last.sid \in before.reset
    /\ updno > 0
    /\ Cardinality(Participants(last.sid)) >= 2
    /\ last.resp.tag = "OkWithPreviousRoundUpdates"

\* C17: a reset leaves the sequence of participants and every mailbox, with
\* the order of its messages, as they were; a fetch of a participant handled
\* right after a reset returns the mailbox as it was before the reset, so all
\* that was ever saved for the gamer has been returned by then.
C17_ResetKeepsMail ==
    /\ Handled("ResetSession") =>
          LET old == before.sessions[last.sid]
              new == sessions[last.sid]
          IN  /\ new.sequence = old.sequence
              /\ DOMAIN new.user_states = DOMAIN old.user_states
              /\ \A g \in DOMAIN old.user_states : Mailbox(new, g) = Mailbox(old, g)
    /\ (/\ last.op = "FetchAllMessages"
        /\ last.sid \in before.reset
        /\ last.gamer \in Participants(last.sid)) =>
          /\ last.resp = RespOkWithMessages(Mailbox(before.sessions[last.sid], last.gamer))
          /\ fetched[last.sid][last.gamer] = saved[last.sid][last.gamer]

\* Two messages were saved for a gamer, the session was reset, and the fetch
\* that followed returned both.
C17_Witness ==
    /\ last.op = "FetchAllMessages"
    /\ last.sid \in before.reset
    /\ last.resp.tag = "OkWithMessages"
    /\ Len(last.resp.messages) = 2
    /\ fetched[last.sid][last.gamer] = last.resp.messages

\* ----------------------------------------------------------- claims, join
\* C18: a join is answered Ok in every state of the session; a gamer new to
\* the session is appended at the end of the sequence with an empty update
\* history and an empty mailbox, while the state, the turn index, the other
\* user states and the positions of the gamers already there stay as they
\* were, so whoever held the turn holds it still.
C18_Join ==
    last.op = "JoinSession" =>
        /\ last.resp = RespOk
        /\ (/\ last.sid \in DOMAIN before.sessions
            /\ last.gamer \notin DOMAIN before.sessions[last.sid].user_states) =>
              LET old == before.sessions[last.sid]
                  new == sessions[last.sid]
              IN  /\ new.sequence = old.sequence \o <<last.gamer>>
                  /\ DOMAIN new.user_states = DOMAIN old.user_states \cup {last.gamer}
                  /\ new.user_states[last.gamer].updates = <<>>
                  /\ new.user_states[last.gamer].awaiting_messages = <<>>
                  /\ new.state = old.state
                  /\ new.current_gamer_index = old.current_gamer_index
                  /\ \A g \in DOMAIN old.user_states :
                        /\ new.user_states[g] = old.user_states[g]
                        /\ \A i \in 1..Len(old.sequence) :
                              old.sequence[i] = g <=> new.sequence[i] = g
                        /\ TurnHolder(old, g) <=> TurnHolder(new, g)
                  /\ ~TurnHolder(new, last.gamer)

\* A third gamer has joined a session in Game whose turn is with the second.
C18_Witness ==
    /\ last.op = "JoinSession"
    /\ last.sid \in DOMAIN before.sessions
    /\ last.gamer \notin DOMAIN before.sessions[last.sid].user_states
    /\ sessions[last.sid].state = "Game"
    /\ sessions[last.sid].current_gamer_index = 1
    /\ Len(sessions[last.sid].sequence) = 3
    /\ TurnHolder(sessions[last.sid], sessions[last.sid].sequence[2])

\* A gamer has joined a session that is Over.
C18_WitnessOver ==
    /\ last.op = "JoinSession"
    /\ last.sid \in DOMAIN before.sessions
    /\ last.gamer \notin DOMAIN before.sessions[last.sid].user_states
    /\ sessions[last.sid].state = "Over"

\* -------------------------------------------------------- claims, updates
\* C19: a SendUpdate on a session of the registry by a gamer that joined it
\* is answered Ok and appends the bytes to the gamer's update history, with
\* nothing else changed; by a gamer that never joined it, it is answered
\* Error and the session stays as it was, without a user state for the gamer.
C19_SendUpdate ==
    Handled("SendUpdate") =>
        LET old == before.sessions[last.sid]
            new == sessions[last.sid]
            g == last.gamer
        IN  IF g \in Participants(last.sid)
            THEN /\ last.resp = RespOk
                 /\ new.user_states[g].updates =
                       old.user_states[g].updates \o <<last.update>>
                 /\ new = [old EXCEPT !.user_states[g].updates = new.user_states[g].updates]
            ELSE /\ last.resp = RespError
                 /\ new = old
                 /\ g \notin DOMAIN new.user_states

\* A gamer's second update has been appended after the first.
C19_Witness ==
    /\ Handled("SendUpdate")
    /\ last.resp = RespOk
    /\ Len(sessions[last.sid].user_states[last.gamer].updates) = 2
    /\ sessions[last.sid].user_states[last.gamer].updates[2] = last.update

\* A gamer that never joined has sent an update to a session others are in.
C19_WitnessStranger ==
    /\ Handled("SendUpdate")
    /\ last.gamer \notin Participants(last.sid)
    /\ Participants(last.sid) # {}
    /\ last.resp = RespError

\* C20: a GetPreviousRoundUpdates on a session of the registry is never
\* answered Error: it is answered with a map whose keys are exactly the gamers
\* that joined the session, the value of a gamer being the update of the
\* gamer accepted last since the session was created or last reset, and
\* absent when there was none.
C20_PreviousRoundUpdates ==
    Handled("GetPreviousRoundUpdates") =>
        /\ last.resp.tag = "OkWithPreviousRoundUpdates"
        /\ DOMAIN last.resp.map = Participants(last.sid)
        /\ \A g \in Participants(last.sid) :
              last.resp.map[g] =
                  IF lastupd[last.sid][g] = 0
                  THEN [some |-> FALSE]
                  ELSE [some |-> TRUE, v |-> lastupd[last.sid][g]]

\* The answer gives a gamer's second update and nothing for another gamer.
C20_Witness ==
    /\ Handled("GetPreviousRoundUpdates")
    /\ last.resp.tag = "OkWithPreviousRoundUpdates"
    /\ \E g, h \in DOMAIN last.resp.map :
          /\ Len(sessions[last.sid].user_states[g].updates) = 2
          /\ last.resp.map[g] = [some |-> TRUE, v |-> 2]
          /\ last.resp.map[h] = [some |-> FALSE]

\* The first update was cleared by a reset: the answer gives the second one to
\* its sender and nothing to the others.
C20_WitnessAfterReset ==
    /\ Handled("GetPreviousRoundUpdates")
    /\ last.resp.tag = "OkWithPreviousRoundUpdates"
    /\ updno = 2
    /\ \E g \in DOMAIN last.resp.map :
          /\ sessions[last.sid].user_states[g].updates = <<2>>
          /\ last.resp.map[g] = [some |-> TRUE, v |-> 2]
          /\ \A h \in DOMAIN last.resp.map \ {g} : last.resp.map[h] = [some |-> FALSE]
          /\ DOMAIN last.resp.map # {g}

\* -------------------------------------------------- claims, unknown gamer
\* C21: a SendMessage on a session of the registry addressed to One(id), id
\* never having joined the session, is answered Error and changes no mailbox
\* of the session.
C21_UnknownAddresseeError ==
    (/\ Handled("SendMessage")
     /\ last.message.to.kind = "One"
     /\ last.message.to.id \notin Participants(last.sid)) =>
        /\ last.resp = RespError
        /\ \A g \in DOMAIN before.sessions[last.sid].user_states :
              Mailbox(sessions[last.sid], g) = Mailbox(before.sessions[last.sid], g)

\* C22: a FetchAllMessages on a session of the registry for a gamer that never
\* joined it is answered Error, not with an empty list of messages.
C22_UnknownGamerFetchError ==
    (/\ Handled("FetchAllMessages")
     /\ last.gamer \notin Participants(last.sid)) =>
        last.resp = RespError

\* ----------------------------------------------------- claims, turn holder
\* The gamer ids is_gamer_turn answers true for.
Holders(sess) == {g \in Gamers \cup {Stranger} : is_gamer_turn(sess, g)}

\* C30: in every session at most one gamer id has is_gamer_turn true; while
\* the state is Game exactly one has, the participant at current_gamer_index.
C30_OneTurnHolder ==
    \A s \in DOMAIN sessions :
        /\ Cardinality(Holders(sessions[s])) <= 1
        /\ sessions[s].state = "Game" =>
              /\ sessions[s].current_gamer_index < Len(sessions[s].sequence)
              /\ Holders(sessions[s]) =
                    {sessions[s].sequence[sessions[s].current_gamer_index + 1]}
              /\ Holders(sessions[s]) \subseteq Participants(s)

\* In Game with three participants the turn is with the second, after a gamer
\* joined behind the holder and the turn was passed on.
C30_Witness ==
    /\ last.op = "NextGamer" /\ last.resp = RespOk
    /\ sessions[last.sid].state = "Game"
    /\ Len(sessions[last.sid].sequence) = 3
    /\ calls[last.sid] = -1
    /\ Holders(sessions[last.sid]) = {sessions[last.sid].sequence[2]}

\* ---------------------------------------------------- claims, handler tasks
\* The handler of c has come to its end: it returned or it panicked.
Finished(c) == hs[c].pc \in {"done", "panicked", "read_failed"}

\* The handler of c has worked on the registry.
Served(c) == hs[c].pc \in {"reply", "shutdown", "done", "panicked"} /\ Decodes(hs[c].req)

\* The handler of c takes the step.
StepOf(c) == hs'[c] # hs[c]

\* C23: at most one handler owns the guard of the registry at any time, a
\* handler works on the registry only while it owns it, and the responses
\* and the registry are those of the requests served one at a time in the
\* order in which the handlers acquired the lock.
C23_Linearizable ==
    /\ Cardinality({c \in Conns : hs[c].guard}) <= 1
    /\ \A c \in Conns :
          /\ hs[c].guard => mutex.holder = c
          /\ hs[c].pc = "locked" => hs[c].guard
          /\ Served(c) =>
                /\ c \in Range(lin.order)
                /\ IF hs[c].pc = "panicked"
                   THEN lin.resp[c] = NoReply
                   ELSE hs[c].resp = lin.resp[c]
    /\ (\A c \in Conns : hs[c].pc # "locked") => sessions = lin.sessions

\* All three requests are done; bob was told the turn is his, so the turn was
\* passed before his question was served, and the reset came last.
C23_Witness ==
    /\ \A c \in Conns : hs[c].pc = "done"
    /\ lin.order = <<"c1", "c3", "c2">>
    /\ hs["c1"].req.op = "NextGamer"
    /\ hs["c3"].resp = RespOkWithBool(TRUE)
    /\ hs["c2"].req.op = "ResetSession"
    /\ hs["c3"].waited /\ hs["c2"].waited
    /\ sessions["s1"].state = "Join"

\* The response variants process() can write for an operation.
ResponseTags(op) ==
    CASE op \in {"IsGamerTurn", "IsGameOn"} -> {"OkWithBool", "Error"}
      [] op = "GetPreviousRoundUpdates" -> {"OkWithPreviousRoundUpdates", "Error"}
      [] op = "FetchAllMessages" -> {"OkWithMessages", "Error"}
      [] op = "garbage" -> {"Error"}
      [] OTHER -> {"Ok", "Error"}

\* C24: a handler that read its request to the end of the stream writes
\* exactly one response, of a variant of its operation, and then shuts its
\* writer down: never no response and never two.
C24_OneResponse ==
    \A c \in Conns :
        /\ hs[c].writes <= 1
        /\ hs[c].closed => hs[c].writes = 1
        /\ hs[c].pc \in {"done", "panicked"} =>
              /\ hs[c].writes = 1
              /\ hs[c].closed
              /\ hs[c].resp.tag \in ResponseTags(hs[c].req.op)

\* A handler whose request does not decode never asks for the lock; once past
\* the decoding it has written Error, once, and it ends with its writer shut.
C25_ErrorWritten ==
    \A c \in Conns :
        (hs[c].pc \notin {"idle", "reading"} /\ ~Decodes(hs[c].req)) =>
            /\ hs[c].pc \in {"decode", "read_failed", "shutdown", "done"}
            /\ ~hs[c].guard /\ ~hs[c].waited
            /\ mutex.holder # c
            /\ c \notin Range(mutex.queue) \cup Range(lin.order)
            /\ hs[c].pc \in {"shutdown", "done"} =>
                  hs[c].resp = RespError /\ hs[c].writes = 1
            /\ hs[c].pc = "done" => hs[c].closed

\* No step of such a handler changes the registry or the lock.
C25_NothingTouched ==
    \A c \in Conns :
        (StepOf(c) /\ ~Decodes(hs'[c].req)) =>
            /\ sessions' = sessions
            /\ mutex' = mutex
            /\ lin' = lin

\* C25: a request that does not decode as an Operation is answered Error and
\* the writer is shut down after it; its handler never acquires the registry
\* lock and the registry is not changed.
C25_DecodeFailure == [](C25_ErrorWritten) /\ [][C25_NothingTouched]_vars

\* Bytes that do not decode were answered Error while another handler owned
\* the guard of the registry.
C25_Witness ==
    \E c, d \in Conns :
        /\ ~Decodes(hs[c].req) /\ hs[c].pc = "done"
        /\ hs[c].resp = RespError /\ hs[c].closed
        /\ hs[d].guard /\ hs[d].pc = "reply"

\* C27: no handler owns the guard of the registry while it writes its
\* response: the lock is released before reply_client, whatever the response.
C27_NoLockWhileReplying ==
    \A c \in Conns : hs[c].pc = "reply" => ~hs[c].guard

\* The handler of c has ended in failure: its read failed, it panicked, or it
\* answered Error and returned.
Failed(c) ==
    \/ hs[c].pc \in {"read_failed", "panicked"}
    \/ hs[c].pc = "done" /\ hs[c].resp = RespError

\* A handler that ended in failure owns no guard and does not wait for one; a
\* handler panics only on a SendMessage of its own to a gamer that is not in
\* the session.
C26_LockFreeAfterFailure ==
    \A c \in Conns :
        /\ Failed(c) =>
              /\ ~hs[c].guard
              /\ mutex.holder # c
              /\ c \notin Range(mutex.queue)
        /\ hs[c].pc = "panicked" =>
              /\ hs[c].req.op = "SendMessage"
              /\ hs[c].req.to.kind = "One"
              /\ hs[c].req.to.id \notin Participants(hs[c].req.sid)

\* No step of a handler on its way to a failure changes the registry.
C26_NoPartialChange ==
    \A c \in Conns :
        (/\ StepOf(c)
         /\ \/ hs'[c].pc \in {"read_failed", "panicked"}
            \/ hs'[c].resp = RespError) =>
            sessions' = sessions

\* Every handler that has its request comes to its end: it has written its one
\* response and shut the writer down, unless its own request made it panic.
C26_OthersAnswered ==
    \A c \in Conns :
        (hs[c].pc = "decode") ~>
            \/ hs[c].pc = "panicked"
            \/ hs[c].pc = "done" /\ hs[c].writes = 1 /\ hs[c].closed

\* C26: a handler that ends in failure (read error, decode error, unknown
\* session, unknown gamer, panic in save_message under the lock) leaves the
\* registry lock released and the registry without any change of its request,
\* and every other handler, running with it or after it, is answered.
C26_FailuresContained ==
    [](C26_LockFreeAfterFailure) /\ [][C26_NoPartialChange]_vars /\ C26_OthersAnswered

\* A handler panicked under the lock it was first to acquire; the two others
\* acquired it afterwards, were answered and have changed the registry.
C26_Witness ==
    /\ hs["c2"].pc = "panicked"
    /\ Len(lin.order) = 3 /\ lin.order[1] = "c2"
    /\ hs["c1"].pc = "done" /\ hs["c1"].resp = RespOk
    /\ hs["c1"].req.op = "JoinSession"
    /\ hs["c3"].pc = "done" /\ hs["c3"].resp.tag = "OkWithPreviousRoundUpdates"
    /\ "carol" \in DOMAIN sessions["s1"].user_states
    /\ mutex = NewMutex

\* A handler acquires the lock at most once and queues for it at most once,
\* never while it owns the guard, and owns no guard once it is shutting down
\* or has ended.
C28_AcquiredOnce ==
    \A c \in Conns :
        /\ Occurrences(lin.order, c) <= 1
        /\ Occurrences(mutex.queue, c) <= 1
        /\ hs[c].guard => (c \notin Range(mutex.queue) /\ hs[c].pc \in {"locked", "reply"})
        /\ c \in Range(mutex.queue) => hs[c].pc = "waiting"
        /\ (Finished(c) \/ hs[c].pc = "shutdown") => (~hs[c].guard /\ mutex.holder # c)

\* A waiting handler acquires the lock, a guard is dropped, and a handler that
\* has its request comes to its end.
C28_Progress ==
    \A c \in Conns :
        /\ (hs[c].pc = "waiting") ~> hs[c].guard
        /\ hs[c].guard ~> ~hs[c].guard
        /\ (hs[c].pc \in {"decode", "waiting"}) ~> Finished(c)

\* C28: the registry lock cannot deadlock: a handler acquires it at most once
\* for its request and never while holding it, every acquisition is followed
\* by a release whatever the path, and with fair scheduling every handler
\* waiting for the lock acquires it and comes to the end of its request.
C28_NoDeadlock == [](C28_AcquiredOnce) /\ C28_Progress

\* Two handlers queued behind a third that replied under the lock; all three
\* have ended and the lock is free.
C28_Witness ==
    /\ \A c \in Conns : Finished(c)
    /\ hs["c1"].req.op = "NextGamer" /\ ~hs["c1"].waited
    /\ hs["c2"].waited /\ hs["c3"].waited
    /\ lin.order = <<"c1", "c2", "c3">>
    /\ mutex = NewMutex

\* A handler that has not seen the end of its request owns no guard, does not
\* wait for the lock, has not been served and has written nothing.
C29_ReadingHoldsNothing ==
    \A c \in Conns :
        hs[c].pc \in {"idle", "reading"} =>
            /\ ~hs[c].guard
            /\ mutex.holder # c
            /\ c \notin Range(mutex.queue) \cup Range(lin.order)
            /\ hs[c].writes = 0

\* The steps of a handler up to the end of its request change neither the
\* registry nor the lock.
C29_ReadingChangesNothing ==
    \A c \in Conns :
        (StepOf(c) /\ hs[c].pc \in {"idle", "reading"}) =>
            /\ sessions' = sessions
            /\ mutex' = mutex
            /\ lin' = lin

\* Whatever a handler that is still reading does, a handler that has its
\* request comes to its end.
C29_OthersComplete ==
    \A c, d \in Conns :
        (c # d /\ hs[c].pc = "decode" /\ hs[d].pc = "reading") ~> Finished(c)

\* C29: a handler decodes and dispatches its request only after the end of the
\* stream and holds no registry lock while it reads; a client that never
\* closes its write side stalls its own handler only: the registry is not
\* changed by it and the requests of the other connections come to their end.
C29_StalledReader ==
    /\ [](C29_ReadingHoldsNothing)
    /\ [][C29_ReadingChangesNothing]_vars
    /\ C29_OthersComplete

\* One handler is still reading while the two others, which queued for the
\* lock, are done, the session having been reset by one of them.
C29_Witness ==
    /\ hs["c1"].pc = "reading"
    /\ hs["c2"].pc = "done" /\ hs["c2"].req.op = "ResetSession"
    /\ hs["c3"].pc = "done" /\ hs["c3"].req.op = "IsGamerTurn"
    /\ lin.order = <<"c3", "c2">>
    /\ hs["c2"].waited
    /\ sessions["s1"].state = "Join"

\* -------------------------------------------------- turn index and start
\* A NextGamer on a session of the registry, in whatever state it is: the
\* answer is Ok and only the turn index changes, to (index + 1) mod n. The
\* request carries a session id and no gamer id.
C31_NextAdvances ==
    (last'.op = "NextGamer" /\ last'.sid \in DOMAIN sessions)
        => LET sess == sessions[last'.sid]
           IN  /\ last'.resp = RespOk
               /\ sessions'[last'.sid] =
                     [sess EXCEPT !.current_gamer_index = (@ + 1) % Len(sess.sequence)]

\* A StartSession or EndSession leaves the turn index and the sequence alone.
C31_StartEndKeepIndex ==
    (last'.op \in {"StartSession", "EndSession"} /\ last'.sid \in DOMAIN sessions)
        => /\ sessions'[last'.sid].current_gamer_index =
                 sessions[last'.sid].current_gamer_index
           /\ sessions'[last'.sid].sequence = sessions[last'.sid].sequence

\* A StartSession after which the game is on.
StartedNow ==
    /\ last'.op = "StartSession"
    /\ last'.sid \in DOMAIN sessions
    /\ sessions'[last'.sid].state = "Game"

\* As stated: right after start the turn is with the joiner at index
\* (next_gamer calls since creation or reset) mod n, and with the first
\* joiner only if there was no such call.
C31_HolderIsTurnsModN ==
    StartedNow
        => LET order == joinlog[last'.sid]
               n == Len(order)
           IN  /\ \A g \in Gamers \cup {Stranger} :
                     is_gamer_turn(sessions'[last'.sid], g)
                         <=> g = order[(turns[last'.sid] % n) + 1]
               /\ is_gamer_turn(sessions'[last'.sid], order[1]) => turns[last'.sid] = 0

\* C31 as stated: next_gamer advances the index in every state, start and end
\* leave it alone, and the gamer holding the turn right after start is the
\* participant at index (number of next_gamer calls since creation or last
\* reset) mod n, the first joiner only if no next_gamer ran before start.
C31_AsStated ==
    [][C31_NextAdvances /\ C31_StartEndKeepIndex /\ C31_HolderIsTurnsModN]_vars

\* Right after start the turn is with the joiner at the index the calls left
\* behind. That index is (calls) mod n when no new gamer joined after the
\* first call, and the holder is the first joiner exactly when the index is 0.
C31_HolderIsAtIndex ==
    StartedNow
        => LET order == joinlog[last'.sid]
               n == Len(order)
               i == sessions[last'.sid].current_gamer_index
           IN  /\ \A g \in Gamers \cup {Stranger} :
                     is_gamer_turn(sessions'[last'.sid], g) <=> g = order[i + 1]
               /\ calls[last'.sid] >= 0 =>
                     /\ calls[last'.sid] = turns[last'.sid]
                     /\ i = turns[last'.sid] % n
               /\ is_gamer_turn(sessions'[last'.sid], order[1]) <=> i = 0
               /\ turns[last'.sid] = 0 => i = 0

\* C31: next_gamer is not gated by the session state or by who calls it, it
\* advances the turn index in Join and Over as well as in Game, and start and
\* end leave the index unchanged; so the gamer holding the turn right after
\* start is the participant at the index the next_gamer calls since creation
\* or last reset left behind: (number of calls) mod n if no new gamer joined
\* after the first of them, and the first joiner exactly when that index is 0,
\* as it is when no next_gamer ran before start.
C31_TurnSurvivesStart ==
    [][C31_NextAdvances /\ C31_StartEndKeepIndex /\ C31_HolderIsAtIndex]_vars

\* C31 witness: start has just put the game on after one next_gamer call on
\* alice alone and a later join of bob: the turn is with the first joiner,
\* not with the joiner at 1 mod 2.
C31_Witness ==
    /\ last.op = "StartSession" /\ last.resp = RespOk
    /\ sessions["s1"].state = "Game"
    /\ turns["s1"] = 1
    /\ calls["s1"] = -1
    /\ Len(sessions["s1"].sequence) = 2
    /\ sessions["s1"].current_gamer_index = 0

\* C31 witness of the other case: next_gamer has moved the index of a session
\* that is over.
C31_WitnessOver ==
    /\ last.op = "NextGamer" /\ last.resp = RespOk
    /\ sessions["s1"].state = "Over"
    /\ sessions["s1"].current_gamer_index = 1
    /\ turns["s1"] = 1

\* ------------------------------------------------ broadcasts and late joiners
\* The broadcasts of a session that reached a mailbox.
Broadcasts(s) ==
    {m \in UNION {Range(saved[s][h]) : h \in Gamers} : m.to = AddrAll}

\* The broadcasts saved while g had not joined: sent by another gamer and not
\* addressed to g among the gamers that had joined then.
Missed(s, g) ==
    {m \in Broadcasts(s) : m.from # g /\ m \notin Range(saved[s][g])}

\* A broadcast saved before a gamer joined is neither pending for the gamer
\* nor was it ever returned to the gamer.
C33_NeverReceived ==
    \A s \in DOMAIN sessions : \A g \in DOMAIN sessions[s].user_states :
        \A m \in Missed(s, g) :
            /\ m \notin Range(Mailbox(sessions[s], g))
            /\ m \notin Range(fetched[s][g])

\* A JoinSession of a gamer that is not a participant yet: its mailbox is empty
\* and the other mailboxes are as they were.
C33_StartsEmpty ==
    (last'.op = "JoinSession" /\ last'.gamer \notin Participants(last'.sid))
        => /\ Mailbox(sessions'[last'.sid], last'.gamer) = <<>>
           /\ last'.sid \in DOMAIN sessions =>
                 \A h \in DOMAIN sessions[last'.sid].user_states :
                     Mailbox(sessions'[last'.sid], h) = Mailbox(sessions[last'.sid], h)

\* C33: the recipients of a broadcast are fixed when save_message runs. A
\* gamer who joins the session after a message with to = All was saved starts
\* with an empty mailbox, and that message is never pending for the gamer nor
\* returned by any of the gamer's fetches.
C33_RecipientsFixedAtSave == [](C33_NeverReceived) /\ [][C33_StartsEmpty]_vars

\* C33 witness: carol joined after a broadcast that bob received, a later
\* message reached her, and her fetch has returned that later message alone.
C33_Witness ==
    /\ last.op = "FetchAllMessages" /\ last.gamer = "carol"
    /\ Missed("s1", "carol") # {}
    /\ Len(last.resp.messages) = 1
    /\ last.resp.messages[1].payload = 2
    /\ \E m \in Missed("s1", "carol") : m.payload = 1 /\ m \in Range(saved["s1"]["bob"])

\* ------------------------------------------------------ session isolation
\* A request leaves every session but the one it names as it was, with the
\* histories kept for it.
C32_OthersUntouched ==
    \A t \in DOMAIN sessions :
        t # last'.sid =>
            /\ t \in DOMAIN sessions'
            /\ sessions'[t] = sessions[t]
            /\ joinlog'[t] = joinlog[t] /\ calls'[t] = calls[t]
            /\ saved'[t] = saved[t] /\ fetched'[t] = fetched[t]

\* The mailbox a gamer has in a session holds messages saved for the gamer in
\* that session and none of those saved for the gamer in another session.
C32_OwnMailboxes ==
    \A s \in DOMAIN sessions : \A g \in DOMAIN sessions[s].user_states :
        /\ Range(Mailbox(sessions[s], g)) \subseteq Range(saved[s][g])
        /\ \A t \in RegSessionIds \ {s} :
              Range(Mailbox(sessions[s], g)) \cap Range(saved[t][g]) = {}

\* C32: sessions are isolated. A request addressed to session s leaves every
\* other session of the registry unchanged (state, participants, turn index,
\* update histories, mailboxes), and a gamer joined to two sessions has in
\* each a mailbox and a history of its own: what is saved, fetched, updated
\* or reset in one does not show in the other.
C32_SessionsIsolated == [](C32_OwnMailboxes) /\ [][C32_OthersUntouched]_vars

\* C32 witness: alice is in both sessions; s1 is running with the turn at its
\* second participant and holds a message for her, and an update just accepted
\* in s2 is in her history there alone.
C32_Witness ==
    /\ DOMAIN sessions = {"s1", "s2"}
    /\ last.op = "SendUpdate" /\ last.sid = "s2" /\ last.resp = RespOk
    /\ sessions["s1"].state = "Game" /\ sessions["s2"].state = "Join"
    /\ sessions["s1"].current_gamer_index = 1
    /\ sessions["s2"].current_gamer_index = 0
    /\ Len(Mailbox(sessions["s1"], "alice")) = 1
    /\ Mailbox(sessions["s2"], "alice") = <<>>
    /\ sessions["s1"].user_states["alice"].updates = <<>>
    /\ sessions["s2"].user_states["alice"].updates # <<>>

\* ------------------------------------------------------------- queries
QueryOps == {"IsGameOn", "IsGamerTurn", "GetPreviousRoundUpdates"}

\* Requests that may follow a query, one of each operation.
LaterRequests ==
    {[op |-> "JoinSession", sid |-> "s1", gamer |-> "carol"],
     [op |-> "ResetSession", sid |-> "s1"],
     [op |-> "StartSession", sid |-> "s1"],
     [op |-> "EndSession", sid |-> "s1"],
     [op |-> "IsGamerTurn", sid |-> "s1", gamer |-> "bob"],
     [op |-> "IsGameOn", sid |-> "s1"],
     [op |-> "SendUpdate", sid |-> "s1", gamer |-> "alice", update |-> "u1"],
     [op |-> "GetPreviousRoundUpdates", sid |-> "s1"],
     [op |-> "SendMessage", sid |-> "s1", from |-> "alice", to |-> AddrAll],
     [op |-> "FetchAllMessages", sid |-> "s1", gamer |-> "bob"],
     [op |-> "NextGamer", sid |-> "s1"]}

\* A query step: the registry and all that is kept of the requests so far are
\* as before; the same query asked again on the registry after the step gets
\* the response just given and leaves the registry alone once more; and each
\* later request is served on the registry after as it would have been on the
\* registry before.
C34_QueryStep ==
    last'.op \in QueryOps
        => /\ sessions' = sessions
           /\ UNCHANGED <<msgno, joinlog, calls, saved, fetched>>
           /\ Serve(sessions', last', 0).resp = last'.resp
           /\ Serve(sessions', last', 0).sessions = sessions'
           /\ (last.op = last'.op /\ last.sid = last'.sid
               /\ (last'.op = "IsGamerTurn" => last.gamer = last'.gamer))
                  => last'.resp = last.resp
           /\ \A r \in LaterRequests :
                 Serve(sessions', r, msgno' + 1) = Serve(sessions, r, msgno + 1)

\* C34: IsGameOn, IsGamerTurn and GetPreviousRoundUpdates leave the whole
\* registry unchanged whatever they answer (Error included); a query repeated
\* with no other request in between gets the same response, and no later
\* request sees a difference.
C34_QueriesChangeNothing == [][C34_QueryStep]_vars

\* C34 witness: GetPreviousRoundUpdates has reported an update of alice in a
\* session with a pending message; the update and the message are still there.
C34_Witness ==
    /\ last.op = "GetPreviousRoundUpdates"
    /\ last.resp.tag = "OkWithPreviousRoundUpdates"
    /\ "alice" \in DOMAIN last.resp.map
    /\ last.resp.map["alice"].some
    /\ sessions[last.sid].user_states["alice"].updates # <<>>
    /\ \E g \in Participants(last.sid) : Mailbox(sessions[last.sid], g) # <<>>

\* C34 witness of the Error outcome: a query named a session that is not in
\* the registry, which is still empty.
C34_WitnessError ==
    /\ last.op \in QueryOps /\ last.resp = RespError
    /\ sessions = EmptyMap

====
